---- MODULE Spec2Model ----
(***************************************************************************)
(* Booking lifecycle of listings/views.py: BookingViewSet, a ModelViewSet  *)
(* over Booking.objects.all() with two extra detail actions, confirm and   *)
(* cancel.                                                                 *)
(*                                                                         *)
(* Spec     : every request is handled to completion before the next one   *)
(*            starts (one synchronous worker).                             *)
(* SpecRace : several workers; get_object() and the rest of a confirm /    *)
(*            cancel handler are separate steps, each worker holding its   *)
(*            own in-memory Booking instance.                              *)
(***************************************************************************)
EXTENDS Integers, Sequences, FiniteSets, TLC

\* ---------------------------------------------------------------- bounds
MaxBookings == 2        \* primary keys handed out by the store
MaxDate     == 2        \* values of the start_date column
MaxCalls    == 4        \* requests handled in one behaviour
MaxWorkers  == 2        \* concurrent request workers (SpecRace)

Ids     == 1..MaxBookings
Dates   == 1..MaxDate
Workers == 1..MaxWorkers

\* ------------------------------------------------------------ data model
\* Values a client may put in the "status" key of a request body.
StatusInputs == {"confirmed", "archived"}

\* Status of a row inserted by create (Booking model default).
DefaultStatus == "pending"

\* Variant: the serializer also accepts "status" from a request body.
WritableFields_with_status == {"start_date", "status"}

\* Fields of a Booking the detail serializer accepts from a request body.
WritableFields == {"start_date"}

\* Placeholder for "no instance loaded" (get_object() raised Http404, or the
\* handler never calls get_object()).
NoBooking == [status |-> "none", start_date |-> 0]

\* BookingDetailSerializer(booking).data
BookingDetailSerializer(pk, booking) ==
    [booking_id |-> pk, status |-> booking.status, start_date |-> booking.start_date]

ConfirmError == [error |-> "Only pending bookings can be confirmed."]
CancelError  == [error |-> "Booking is already canceled."]
NotFound     == [detail |-> "Not found."]
NoContent    == [detail |-> ""]

HTTP_200_OK          == 200
HTTP_201_CREATED     == 201
HTTP_204_NO_CONTENT  == 204
HTTP_400_BAD_REQUEST == 400
HTTP_404_NOT_FOUND   == 404

\* Request bodies: PUT and POST carry every key, PATCH any subset of them.
EmptyBody   == [f \in {} |-> 0]
PutBodies   == [start_date : Dates, status : StatusInputs]
PatchBodies == PutBodies \cup [start_date : Dates] \cup [status : StatusInputs] \cup {EmptyBody}

\* ----------------------------------------------------------------- state
VARIABLES
    bookings,   \* the Booking table: primary key -> row
    nextId,     \* next primary key the store hands out
    last,       \* the most recently completed request and its response
    prev,       \* the request completed before last
    ncalls,     \* requests accepted so far
    nok,        \* confirm / cancel calls answered with HTTP 200
    writes,     \* booking.save() calls made by confirm / cancel
    reqs        \* per worker: the request it is handling (SpecRace)

vars == <<bookings, nextId, last, prev, ncalls, nok, writes, reqs>>

NoRequest == [action |-> "none", pk |-> 0, booking |-> NoBooking,
              status_code |-> 0, data |-> NoContent, saved |-> FALSE]

Idle == [pc |-> "idle", action |-> "none", pk |-> 0, booking |-> NoBooking,
         status_code |-> 0, saved |-> FALSE]

Init ==
    /\ bookings = [p \in {} |-> NoBooking]
    /\ nextId = 1
    /\ last = NoRequest
    /\ prev = NoRequest
    /\ ncalls = 0
    /\ nok = 0
    /\ writes = 0
    /\ reqs = [w \in Workers |-> Idle]

\* ------------------------------------------------------------ persistence
\* Model.save(): UPDATE the row of this primary key with every field of the
\* instance, INSERT it when no such row exists.
save(store, pk, booking) ==
    [p \in (DOMAIN store) \cup {pk} |-> IF p = pk THEN booking ELSE store[p]]

\* Model.delete()
delete(store, pk) == [p \in (DOMAIN store) \ {pk} |-> store[p]]

\* serializer.save(): copy the writable keys of the body onto the instance.
apply_body(booking, body) ==
    [f \in DOMAIN booking |->
        IF f \in WritableFields /\ f \in DOMAIN body THEN body[f] ELSE booking[f]]

\* Requests a worker has loaded an instance for and not yet answered.
InFlight == Cardinality({w \in Workers : reqs[w].pc = "loaded"})

\* Bound on the requests of one behaviour, answered or in flight.
CanAccept == ncalls + InFlight < MaxCalls

\* A completed request becomes last; the former last becomes prev.
Respond(r) ==
    /\ prev' = last
    /\ last' = r
    /\ ncalls' = ncalls + 1

\* ------------------------------------------------- confirm / cancel bodies
\* Variant: status assigned, booking.save() forgotten.
confirm_body_no_save(pk, booking) ==
    IF booking.status # "pending"
    THEN [status_code |-> HTTP_400_BAD_REQUEST, data |-> ConfirmError,
          saved |-> FALSE, booking |-> booking]
    ELSE LET b == [booking EXCEPT !.status = "confirmed"]
         IN  [status_code |-> HTTP_200_OK, data |-> BookingDetailSerializer(pk, b),
              saved |-> FALSE, booking |-> b]

\* Variant: gate inverted (== instead of !=).
confirm_body_inverted_gate(pk, booking) ==
    IF booking.status = "pending"
    THEN [status_code |-> HTTP_400_BAD_REQUEST, data |-> ConfirmError,
          saved |-> FALSE, booking |-> booking]
    ELSE LET b == [booking EXCEPT !.status = "confirmed"]
         IN  [status_code |-> HTTP_200_OK, data |-> BookingDetailSerializer(pk, b),
              saved |-> TRUE, booking |-> b]

\* Variant: booking.save() called before the gate.
confirm_body_save_before_check(pk, booking) ==
    IF booking.status # "pending"
    THEN [status_code |-> HTTP_400_BAD_REQUEST, data |-> ConfirmError,
          saved |-> TRUE, booking |-> booking]
    ELSE LET b == [booking EXCEPT !.status = "confirmed"]
         IN  [status_code |-> HTTP_200_OK, data |-> BookingDetailSerializer(pk, b),
              saved |-> TRUE, booking |-> b]

\* Variant: gate rejects only an already confirmed booking.
confirm_body_confirmed_gate(pk, booking) ==
    IF booking.status = "confirmed"
    THEN [status_code |-> HTTP_400_BAD_REQUEST, data |-> ConfirmError,
          saved |-> FALSE, booking |-> booking]
    ELSE LET b == [booking EXCEPT !.status = "confirmed"]
         IN  [status_code |-> HTTP_200_OK, data |-> BookingDetailSerializer(pk, b),
              saved |-> TRUE, booking |-> b]

\* Variant: confirming a confirmed booking again is answered 200 without a save.
confirm_body_idempotent(pk, booking) ==
    IF booking.status = "confirmed"
    THEN [status_code |-> HTTP_200_OK, data |-> BookingDetailSerializer(pk, booking),
          saved |-> FALSE, booking |-> booking]
    ELSE IF booking.status # "pending"
    THEN [status_code |-> HTTP_400_BAD_REQUEST, data |-> ConfirmError,
          saved |-> FALSE, booking |-> booking]
    ELSE LET b == [booking EXCEPT !.status = "confirmed"]
         IN  [status_code |-> HTTP_200_OK, data |-> BookingDetailSerializer(pk, b),
              saved |-> TRUE, booking |-> b]

\* views.py 68-77: everything confirm does after get_object().
confirm_body(pk, booking) ==
    IF booking.status # "pending"
    THEN [status_code |-> HTTP_400_BAD_REQUEST, data |-> ConfirmError,
          saved |-> FALSE, booking |-> booking]
    ELSE LET b == [booking EXCEPT !.status = "confirmed"]
         IN  [status_code |-> HTTP_200_OK, data |-> BookingDetailSerializer(pk, b),
              saved |-> TRUE, booking |-> b]

\* Variant: cancel uses confirm's gate (only pending bookings pass).
cancel_body_pending_only(pk, booking) ==
    IF booking.status # "pending"
    THEN [status_code |-> HTTP_400_BAD_REQUEST, data |-> CancelError,
          saved |-> FALSE, booking |-> booking]
    ELSE LET b == [booking EXCEPT !.status = "canceled"]
         IN  [status_code |-> HTTP_200_OK, data |-> BookingDetailSerializer(pk, b),
              saved |-> TRUE, booking |-> b]

\* Variant: cancel without a gate.
cancel_body_no_gate(pk, booking) ==
    LET b == [booking EXCEPT !.status = "canceled"]
    IN  [status_code |-> HTTP_200_OK, data |-> BookingDetailSerializer(pk, b),
         saved |-> TRUE, booking |-> b]

\* Variant: the assigned status string is spelled "cancelled".
cancel_body_misspelled(pk, booking) ==
    IF booking.status = "canceled"
    THEN [status_code |-> HTTP_400_BAD_REQUEST, data |-> CancelError,
          saved |-> FALSE, booking |-> booking]
    ELSE LET b == [booking EXCEPT !.status = "cancelled"]
         IN  [status_code |-> HTTP_200_OK, data |-> BookingDetailSerializer(pk, b),
              saved |-> TRUE, booking |-> b]

\* views.py 83-92: everything cancel does after get_object().
cancel_body(pk, booking) ==
    IF booking.status = "canceled"
    THEN [status_code |-> HTTP_400_BAD_REQUEST, data |-> CancelError,
          saved |-> FALSE, booking |-> booking]
    ELSE LET b == [booking EXCEPT !.status = "canceled"]
         IN  [status_code |-> HTTP_200_OK, data |-> BookingDetailSerializer(pk, b),
              saved |-> TRUE, booking |-> b]

action_body(a, pk, booking) ==
    IF a = "confirm" THEN confirm_body(pk, booking) ELSE cancel_body(pk, booking)

\* Store, counters and response of one confirm / cancel handler that loaded
\* `booking` for primary key pk.
Transition(a, pk, booking) ==
    LET res == action_body(a, pk, booking) IN
    /\ bookings' = IF res.saved THEN save(bookings, pk, res.booking) ELSE bookings
    /\ writes' = IF res.saved THEN writes + 1 ELSE writes
    /\ nok' = IF res.status_code = HTTP_200_OK THEN nok + 1 ELSE nok
    /\ Respond([action |-> a, pk |-> pk, booking |-> booking,
                status_code |-> res.status_code, data |-> res.data,
                saved |-> res.saved])

\* get_object() found no row: the framework answers 404.
Http404(a, pk) ==
    /\ UNCHANGED <<bookings, writes, nok>>
    /\ Respond([action |-> a, pk |-> pk, booking |-> NoBooking,
                status_code |-> HTTP_404_NOT_FOUND, data |-> NotFound,
                saved |-> FALSE])

\* ------------------------------------------- handlers, one request at a time
confirm(pk) ==
    /\ CanAccept
    /\ IF pk \in DOMAIN bookings
       THEN Transition("confirm", pk, bookings[pk])
       ELSE Http404("confirm", pk)
    /\ UNCHANGED <<nextId, reqs>>

cancel(pk) ==
    /\ CanAccept
    /\ IF pk \in DOMAIN bookings
       THEN Transition("cancel", pk, bookings[pk])
       ELSE Http404("cancel", pk)
    /\ UNCHANGED <<nextId, reqs>>

\* ModelViewSet.create
create(body) ==
    /\ CanAccept
    /\ nextId <= MaxBookings
    /\ LET b == apply_body([status |-> DefaultStatus, start_date |-> 0], body) IN
       /\ bookings' = save(bookings, nextId, b)
       /\ Respond([action |-> "create", pk |-> nextId, booking |-> NoBooking,
                   status_code |-> HTTP_201_CREATED,
                   data |-> BookingDetailSerializer(nextId, b), saved |-> TRUE])
    /\ nextId' = nextId + 1
    /\ UNCHANGED <<nok, writes, reqs>>

\* UpdateModelMixin.update: get_object(), then the serializer writes the body.
perform_update(a, pk, body) ==
    IF pk \in DOMAIN bookings
    THEN LET b == apply_body(bookings[pk], body) IN
         /\ bookings' = save(bookings, pk, b)
         /\ Respond([action |-> a, pk |-> pk, booking |-> bookings[pk],
                     status_code |-> HTTP_200_OK,
                     data |-> BookingDetailSerializer(pk, b), saved |-> TRUE])
         /\ UNCHANGED <<nok, writes>>
    ELSE Http404(a, pk)

\* ModelViewSet.update (PUT)
update(pk, body) ==
    /\ CanAccept
    /\ perform_update("update", pk, body)
    /\ UNCHANGED <<nextId, reqs>>

\* ModelViewSet.partial_update (PATCH)
partial_update(pk, body) ==
    /\ CanAccept
    /\ perform_update("partial_update", pk, body)
    /\ UNCHANGED <<nextId, reqs>>

\* ModelViewSet.destroy
destroy(pk) ==
    /\ CanAccept
    /\ IF pk \in DOMAIN bookings
       THEN /\ bookings' = delete(bookings, pk)
            /\ Respond([action |-> "destroy", pk |-> pk, booking |-> bookings[pk],
                        status_code |-> HTTP_204_NO_CONTENT, data |-> NoContent,
                        saved |-> FALSE])
            /\ UNCHANGED <<nok, writes>>
       ELSE Http404("destroy", pk)
    /\ UNCHANGED <<nextId, reqs>>

Next ==
    \/ \E body \in PutBodies : create(body)
    \/ \E pk \in Ids, body \in PutBodies : update(pk, body)
    \/ \E pk \in Ids, body \in PatchBodies : partial_update(pk, body)
    \/ \E pk \in Ids : destroy(pk)
    \/ \E pk \in Ids : confirm(pk)
    \/ \E pk \in Ids : cancel(pk)

Spec == Init /\ [][Next]_vars

\* ------------------------------------------------ handlers, interleaved
\* views.py 67 / 82: booking = self.get_object().  The worker keeps its own
\* copy of the row; a missing row ends the request with 404 at once.
get_object_step(w, a, pk) ==
    /\ reqs[w].pc \in {"idle", "done"}
    /\ CanAccept
    /\ IF pk \in DOMAIN bookings
       THEN /\ reqs' = [reqs EXCEPT ![w] =
                          [pc |-> "loaded", action |-> a, pk |-> pk,
                           booking |-> bookings[pk], status_code |-> 0,
                           saved |-> FALSE]]
            /\ UNCHANGED <<bookings, last, prev, ncalls, nok, writes>>
       ELSE /\ Http404(a, pk)
            /\ reqs' = [reqs EXCEPT ![w] =
                          [pc |-> "done", action |-> a, pk |-> pk,
                           booking |-> NoBooking,
                           status_code |-> HTTP_404_NOT_FOUND, saved |-> FALSE]]
    /\ UNCHANGED nextId

\* Variant: the handler re-reads the row under a lock before the gate.
handler_step_locked(w) ==
    /\ reqs[w].pc = "loaded"
    /\ IF reqs[w].pk \in DOMAIN bookings
       THEN Transition(reqs[w].action, reqs[w].pk, bookings[reqs[w].pk])
       ELSE Http404(reqs[w].action, reqs[w].pk)
    /\ reqs' = [reqs EXCEPT ![w] =
                  [pc |-> "done", action |-> reqs[w].action, pk |-> reqs[w].pk,
                   booking |-> reqs[w].booking,
                   status_code |-> last'.status_code, saved |-> last'.saved]]
    /\ UNCHANGED nextId

\* views.py 68-77 / 83-92 on the instance this worker loaded earlier.
handler_step(w) ==
    /\ reqs[w].pc = "loaded"
    /\ Transition(reqs[w].action, reqs[w].pk, reqs[w].booking)
    /\ reqs' = [reqs EXCEPT ![w] =
                  [pc |-> "done", action |-> reqs[w].action, pk |-> reqs[w].pk,
                   booking |-> reqs[w].booking,
                   status_code |-> last'.status_code, saved |-> last'.saved]]
    /\ UNCHANGED nextId

NextRace ==
    \/ \E body \in PutBodies : create(body)
    \/ \E pk \in Ids : destroy(pk)
    \/ \E w \in Workers, a \in {"confirm", "cancel"}, pk \in Ids : get_object_step(w, a, pk)
    \/ \E w \in Workers : handler_step(w)

SpecRace == Init /\ [][NextRace]_vars

\* ------------------------------------------------------------- properties
\* The step completes a request `a` on primary key pk.
Called(a, pk) ==
    /\ ncalls' = ncalls + 1
    /\ last'.action = a
    /\ last'.pk = pk

\* C1: confirm on a pending booking answers 200 with the updated record, and
\* the stored row is the old row with status confirmed.
ConfirmPendingSucceeds ==
    [][\A pk \in DOMAIN bookings :
        (Called("confirm", pk) /\ bookings[pk].status = "pending") =>
            /\ last'.status_code = 200
            /\ pk \in DOMAIN bookings'
            /\ bookings'[pk] = [bookings[pk] EXCEPT !.status = "confirmed"]
            /\ last'.data = BookingDetailSerializer(pk, bookings'[pk])]_vars

ConfirmPendingSucceedsWitness ==
    /\ last.action = "confirm"
    /\ last.booking.status = "pending"
    /\ last.status_code = 200
    /\ bookings[last.pk].status = "confirmed"

\* C2: confirm on a confirmed or canceled booking answers 400 with the
\* "Only pending bookings can be confirmed." error and leaves the row as it was.
ConfirmNonPendingRejected ==
    [][\A pk \in DOMAIN bookings :
        (Called("confirm", pk) /\ bookings[pk].status \in {"confirmed", "canceled"}) =>
            /\ last'.status_code = 400
            /\ last'.data = [error |-> "Only pending bookings can be confirmed."]
            /\ pk \in DOMAIN bookings'
            /\ bookings'[pk] = bookings[pk]]_vars

ConfirmNonPendingRejectedWitness ==
    /\ last.action = "confirm"
    /\ last.booking.status = "canceled"
    /\ last.status_code = 400
    /\ bookings[last.pk] = last.booking

\* C3: cancel on a pending or confirmed booking answers 200 with the updated
\* record, and the stored row is the old row with status canceled.
CancelActiveSucceeds ==
    [][\A pk \in DOMAIN bookings :
        (Called("cancel", pk) /\ bookings[pk].status \in {"pending", "confirmed"}) =>
            /\ last'.status_code = 200
            /\ pk \in DOMAIN bookings'
            /\ bookings'[pk] = [bookings[pk] EXCEPT !.status = "canceled"]
            /\ last'.data = BookingDetailSerializer(pk, bookings'[pk])]_vars

CancelActiveSucceedsWitness ==
    /\ last.action = "cancel"
    /\ last.booking.status = "confirmed"
    /\ last.status_code = 200
    /\ last.data = BookingDetailSerializer(last.pk, bookings[last.pk])
    /\ bookings[last.pk].status = "canceled"

\* C4: cancel on a canceled booking answers 400 with the "Booking is already
\* canceled." error and leaves the row as it was.
CancelCanceledRejected ==
    [][\A pk \in DOMAIN bookings :
        (Called("cancel", pk) /\ bookings[pk].status = "canceled") =>
            /\ last'.status_code = 400
            /\ last'.data = [error |-> "Booking is already canceled."]
            /\ pk \in DOMAIN bookings'
            /\ bookings'[pk] = bookings[pk]]_vars

CancelCanceledRejectedWitness ==
    /\ last.action = "cancel"
    /\ last.booking.status = "canceled"
    /\ last.status_code = 400
    /\ bookings[last.pk] = last.booking

\* C5: a confirm or cancel call makes one save() when it answers 200 and none
\* otherwise, so the saves made so far equal the calls answered 200.
OneWritePerSuccess ==
    /\ [](writes = nok)
    /\ [][\A pk \in Ids : \A a \in {"confirm", "cancel"} :
            Called(a, pk) =>
                /\ writes' - writes = (IF last'.status_code = 200 THEN 1 ELSE 0)
                /\ last'.saved = (last'.status_code = 200)
                /\ (last'.status_code # 200 => bookings' = bookings)]_vars

OneWritePerSuccessWitness ==
    /\ writes = 2
    /\ nok = 2
    /\ last.action \in {"confirm", "cancel"}
    /\ last.status_code = 400
    /\ prev.action \in {"confirm", "cancel"}
    /\ prev.status_code = 200

\* C6 as stated: a booking that is confirmed or canceled keeps its status in
\* every later step.
ConfirmedAndCanceledTerminal ==
    [][\A pk \in (DOMAIN bookings) \cap (DOMAIN bookings') :
        bookings[pk].status \in {"confirmed", "canceled"} =>
            bookings'[pk].status = bookings[pk].status]_vars

\* C6 amended: canceled is terminal; a confirmed booking never returns to
\* pending and leaves confirmed only through a successful cancel, to canceled.
CanceledTerminalConfirmedOnlyCancels ==
    [][\A pk \in (DOMAIN bookings) \cap (DOMAIN bookings') :
        /\ bookings[pk].status = "canceled" => bookings'[pk].status = "canceled"
        /\ bookings[pk].status = "confirmed" =>
              \/ bookings'[pk].status = "confirmed"
              \/ /\ bookings'[pk].status = "canceled"
                 /\ Called("cancel", pk)
                 /\ last'.status_code = 200]_vars

CanceledTerminalConfirmedOnlyCancelsWitness ==
    /\ prev.action = "confirm" /\ prev.status_code = 200
    /\ last.action = "cancel" /\ last.pk = prev.pk
    /\ last.booking.status = "confirmed"
    /\ last.status_code = 200
    /\ bookings[last.pk].status = "canceled"

\* C7: a row is inserted with status pending, and the status of an existing
\* row changes only in a step that is a confirm or cancel call on that row.
StatusOnlyByTransitions ==
    [][\A pk \in Ids :
        /\ (pk \notin DOMAIN bookings /\ pk \in DOMAIN bookings') =>
              bookings'[pk].status = "pending"
        /\ (pk \in DOMAIN bookings /\ pk \in DOMAIN bookings'
              /\ bookings'[pk].status # bookings[pk].status) =>
              (Called("confirm", pk) \/ Called("cancel", pk))]_vars

StatusOnlyByTransitionsWitness ==
    /\ prev.action = "create" /\ prev.data.status = "pending"
    /\ last.action = "update" /\ last.pk = prev.pk
    /\ last.status_code = 200
    /\ bookings[last.pk].start_date # last.booking.start_date
    /\ bookings[last.pk].status = "pending"

\* C8: every stored booking has status pending, confirmed or canceled.
StatusInClosedSet ==
    \A pk \in DOMAIN bookings : bookings[pk].status \in {"pending", "confirmed", "canceled"}

StatusInClosedSetWitness ==
    /\ \E p, q \in DOMAIN bookings :
          bookings[p].status = "confirmed" /\ bookings[q].status = "canceled"
    /\ writes = 2

\* C9: two confirm calls in a row on a booking that was already confirmed get
\* the same 400 response, neither saves, and the booking is still confirmed.
RepeatedConfirmRejected ==
    (/\ prev.action = "confirm" /\ last.action = "confirm"
     /\ prev.pk = last.pk
     /\ prev.booking.status = "confirmed") =>
        /\ prev.status_code = 400
        /\ prev.data = [error |-> "Only pending bookings can be confirmed."]
        /\ last.status_code = prev.status_code
        /\ last.data = prev.data
        /\ ~prev.saved /\ ~last.saved
        /\ last.booking = prev.booking
        /\ last.pk \in DOMAIN bookings
        /\ bookings[last.pk] = prev.booking

RepeatedConfirmRejectedWitness ==
    /\ prev.action = "confirm" /\ last.action = "confirm"
    /\ prev.pk = last.pk
    /\ prev.booking.status = "confirmed"
    /\ last.status_code = 400
    /\ bookings[last.pk].status = "confirmed"

\* C10: with interleaved requests the gate is evaluated on the copy a worker
\* loaded, not on the stored row: a handler whose copy passes the gate answers
\* 200 and overwrites the row with its copy, whatever the row holds by then.
RaceGateOnLoadedCopy ==
    [][\A w \in Workers :
        (reqs[w].pc = "loaded" /\ reqs'[w].pc = "done") =>
            /\ (reqs[w].action = "confirm" /\ reqs[w].booking.status = "pending") =>
                  /\ reqs'[w].status_code = 200
                  /\ writes' = writes + 1
                  /\ bookings'[reqs[w].pk] = [reqs[w].booking EXCEPT !.status = "confirmed"]
            /\ (reqs[w].action = "cancel" /\ reqs[w].booking.status # "canceled") =>
                  /\ reqs'[w].status_code = 200
                  /\ writes' = writes + 1
                  /\ bookings'[reqs[w].pk] = [reqs[w].booking EXCEPT !.status = "canceled"]]_vars

\* A cancel that loaded the booking as confirmed (an earlier confirm had
\* succeeded) answered 200, and right after it a confirm that had loaded the
\* booking as pending answered 200 too and left the booking confirmed.
RaceGateOnLoadedCopyWitness ==
    \E pk \in DOMAIN bookings : \E w1, w2 \in Workers :
        /\ reqs[w2].pc = "done" /\ reqs[w2].action = "cancel" /\ reqs[w2].pk = pk
        /\ reqs[w2].booking.status = "confirmed" /\ reqs[w2].status_code = 200
        /\ reqs[w1].pc = "done" /\ reqs[w1].action = "confirm" /\ reqs[w1].pk = pk
        /\ reqs[w1].booking.status = "pending" /\ reqs[w1].status_code = 200
        /\ prev.action = "cancel" /\ prev.pk = pk /\ prev.status_code = 200
        /\ last.action = "confirm" /\ last.pk = pk /\ last.status_code = 200
        /\ bookings[pk].status = "confirmed"
        /\ writes = 3
        /\ nextId = 2
====
